---- MODULE Spec2Model ----
(***************************************************************************)
(* The vulnerability fix mediator of src/aegis/app.py: one Flask endpoint, *)
(* analyze_vulnerability, which validates the request body, looks the id   *)
(* up in the "vulnerabilities" table, asks the LLM for a fix, checks the   *)
(* reply and inserts the record.  Requests are handled concurrently; the   *)
(* handler's only shared state is the table, so a request is one process   *)
(* whose atomic steps are its three external calls (lookup, LLM, insert),  *)
(* each taken together with the local code that follows it.                *)
(*                                                                         *)
(* Strings whose content the code inspects (the four request fields, the   *)
(* LLM's vulnerability_id, the store's error text) are sequences, so that  *)
(* str.strip() and the substring test are computed; the fix texts, which   *)
(* the code only copies, are TLA+ strings.                                 *)
(***************************************************************************)
EXTENDS Naturals, Sequences, FiniteSets

\* ------------------------------------------------------------------ bounds
\* Concurrent requests of the specification Spec.
NumRequests == 3
\* Longest vulnerability_id string of the specification SpecInput.
MaxIdLen == 2
\* Longest description / code_snippet / language string of SpecInput.
MaxTextLen == 1

Requests == 1..NumRequests

\* ----------------------------------------------------------------- strings
Chars == {" ", "a"}

StringsUpTo(n) == UNION {[1..k -> Chars] : k \in 0..n}

RECURSIVE LStrip(_)
LStrip(s) == IF s # <<>> /\ Head(s) = " " THEN LStrip(Tail(s)) ELSE s

RECURSIVE RStrip(_)
RStrip(s) ==
    IF s # <<>> /\ s[Len(s)] = " " THEN RStrip(SubSeq(s, 1, Len(s) - 1)) ELSE s

\* str.strip()
Strip(s) == RStrip(LStrip(s))

\* needle in text
Contains(text, needle) ==
    \E i \in 0..Len(text) :
        /\ i + Len(needle) <= Len(text)
        /\ SubSeq(text, i + 1, i + Len(needle)) = needle

\* ------------------------------------------------------------ JSON values
Str(s) == [t |-> "str", s |-> s]
\* any JSON value that is not a string (number, list, object, null, ...)
NonStr == [t |-> "other", s |-> <<>>]

IsStr(v) == v.t = "str"

NoObj == [k \in {} |-> NonStr]

\* A JSON object with no members carrying text.
NoFix == [k \in {} |-> <<>>]

\* ------------------------------------------------------------- validation
REQUIRED_KEYS == {"vulnerability_id", "description", "code_snippet", "language"}

\* A request body as request.get_json(force=True) sees it.
InvalidJsonBody == [json |-> "invalid", obj |-> NoObj]
NonObjectBody == [json |-> "nonobject", obj |-> NoObj]
ObjectBody(o) == [json |-> "object", obj |-> o]

Ok == [ok |-> TRUE, error |-> "", fields |-> {}]
Err(msg, ks) == [ok |-> FALSE, error |-> msg, fields |-> ks]

BlankField(data, k) == ~IsStr(data.obj[k]) \/ Strip(data.obj[k].s) = <<>>

validate_input_noStrip(data) ==
    IF data.json # "object"
    THEN {Err("JSON body must be an object", {})}
    ELSE LET missing == REQUIRED_KEYS \ DOMAIN data.obj
             bad == {k \in REQUIRED_KEYS \ missing :
                       ~IsStr(data.obj[k]) \/ data.obj[k].s = <<>>}
         IN  IF missing # {} THEN {Err("Missing required fields", missing)}
             ELSE IF bad # {}
                  THEN {Err("Field must be a non-empty string", {k}) : k \in bad}
                  ELSE {Ok}

\* The results validate_input(data) may return.  The loop runs over a Python
\* set, so which failing field is named is any of them.
validate_input(data) ==
    IF data.json # "object"
    THEN {Err("JSON body must be an object", {})}
    ELSE LET missing == REQUIRED_KEYS \ DOMAIN data.obj
             bad == {k \in REQUIRED_KEYS \ missing : BlankField(data, k)}
         IN  IF missing # {} THEN {Err("Missing required fields", missing)}
             ELSE IF bad # {}
                  THEN {Err("Field must be a non-empty string", {k}) : k \in bad}
                  ELSE {Ok}

\* Lines 78-85: the body is parsed (a body that is not JSON raises, caught as
\* 400 "Invalid JSON") and validated.
ParseRequest(data) ==
    IF data.json = "invalid" THEN {Err("Invalid JSON", {})} ELSE validate_input(data)

\* ------------------------------------------------------------------- LLM
\* What call_llm and json.loads can see: the call raised; the text is not
\* JSON; the text is a JSON value that is no object; the text is an object.
LlmError == [kind |-> "error", obj |-> NoFix]
LlmText == [kind |-> "text", obj |-> NoFix]
LlmNonObject == [kind |-> "nonobject", obj |-> NoFix]
LlmObject(o) == [kind |-> "object", obj |-> o]
NoReply == [kind |-> "none", obj |-> NoFix]

expected_keys == {"vulnerability_id", "fixed_code", "fix_description"}

\* ------------------------------------------------------------- responses
Response(status, error, fix) == [status |-> status, error |-> error, body |-> fix]
NoResponse == Response(0, <<>>, NoFix)

\* Line 115 forgotten: the reply's own id is kept.
OverwriteIdKeep(parsed, id) == parsed

\* Line 115: parsed["vulnerability_id"] = vuln_id
OverwriteId(parsed, id) == [parsed EXCEPT !["vulnerability_id"] = id]

\* Lines 101-115, the code after the LLM call: the error response that ends
\* the request, or (status 0) the normalised reply to insert.  A JSON value
\* that is no object has no keys(): line 112 raises AttributeError, which
\* nothing catches, and Flask answers 500.
HandleReply(rep, id) ==
    IF rep.kind = "error" THEN Response(502, <<"LLM call failed">>, NoFix)
    ELSE IF rep.kind = "text"
    THEN Response(502, <<"LLM returned invalid JSON">>, NoFix)
    ELSE IF rep.kind = "nonobject"
    THEN Response(500, <<"Internal Server Error">>, NoFix)
    ELSE IF ~(expected_keys \subseteq DOMAIN rep.obj)
    THEN Response(502, <<"Missing keys in LLM output">>, NoFix)
    ELSE Response(0, <<>>, OverwriteId(rep.obj, id))

\* ------------------------------------------------------------------ store
\* The rows of the "vulnerabilities" table, in insertion order.
Columns ==
    {"vulnerability_id", "description", "code_snippet", "language",
     "fix_description", "fixed_code"}

\* .select("vulnerability_id, fix_description, fixed_code").eq("vulnerability_id", id)
SelectFix(rows, id) ==
    LET hits == SelectSeq(rows, LAMBDA row : row["vulnerability_id"] = id)
    IN  [i \in 1..Len(hits) |->
            [k \in expected_keys |-> hits[i][k]]]

\* Lines 119-126
insert_data(data, id, parsed) ==
    [k \in Columns |->
        IF k = "vulnerability_id" THEN id
        ELSE IF k \in {"fix_description", "fixed_code"} THEN parsed[k]
        ELSE data.obj[k].s]

DuplicateKeyError == <<"duplicate", "key", "value", "violates", "unique", "constraint">>
StoreUnavailable == <<"connection", "refused">>

Inserted(rows) == [rows |-> rows, raised |-> FALSE, msg |-> <<>>]
Raised(rows, msg) == [rows |-> rows, raised |-> TRUE, msg |-> msg]

HasKey(rows, id) == \E i \in 1..Len(rows) : rows[i]["vulnerability_id"] = id

\* A table without the primary key.
TableInsertNoKey(rows, row) ==
    {Inserted(Append(rows, row)), Raised(rows, StoreUnavailable)}

\* An insert that replaces the row of the same id.
TableUpsert(rows, row) ==
    {Inserted(Append(SelectSeq(rows,
                 LAMBDA old : old["vulnerability_id"] # row["vulnerability_id"]),
              row)),
     Raised(rows, StoreUnavailable)}

\* .insert(insert_data).execute(): the outcomes of one insert.  The table's
\* primary key is vulnerability_id: a second row of the same id is rejected
\* with the "duplicate key value" error lines 137-140 look for.  Any insert
\* may also fail for another reason.
TableInsert(rows, row) ==
    IF HasKey(rows, row["vulnerability_id"])
    THEN {Raised(rows, DuplicateKeyError), Raised(rows, StoreUnavailable)}
    ELSE {Inserted(Append(rows, row)), Raised(rows, StoreUnavailable)}

ConflictError(id) ==
    <<"Vulnerability ID '">> \o id \o <<"' already exists. Use a unique ID.">>

\* Every insert error reported as a generic failure.
InsertErrorGeneric(id, msg) == Response(500, <<"Database insert failed">>, NoFix)

\* Lines 136-142
InsertError(id, msg) ==
    IF Contains(msg, <<"duplicate", "key", "value">>)
    THEN Response(409, ConflictError(id), NoFix)
    ELSE Response(500, <<"Database insert failed">>, NoFix)

\* The except clause swallowed: the fix is returned whatever the insert did.
InsertResponseSwallow(out, id, parsed) == Response(200, <<>>, parsed)

\* Lines 118-145, the code after the insert call.
InsertResponse(out, id, parsed) ==
    IF out.raised THEN InsertError(id, out.msg) ELSE Response(200, <<>>, parsed)

\* A hit that does not end the request.
LookupResponseNoHit(failed, existing) ==
    IF failed THEN Response(500, <<"Database lookup failed">>, NoFix)
    ELSE NoResponse

\* Lines 90-97: the response that ends the request at the lookup, or
\* (status 0) none.
LookupResponse(failed, existing) ==
    IF failed THEN Response(500, <<"Database lookup failed">>, NoFix)
    ELSE IF Len(existing) > 0 THEN Response(200, <<>>, existing[1])
    ELSE NoResponse

\* -------------------------------------------------------------- the state
VARIABLES
    store,      \* the rows of the "vulnerabilities" table
    pc,         \* per request: "idle", "lookup", "llm", "insert", "done"
    body,       \* per request: the body it was sent with
    vuln_id,    \* per request: line 87's vuln_id
    reply,      \* per request: what the LLM call gave
    parsed,     \* per request: line 115's parsed
    resp,       \* per request: the response returned (status 0: none yet)
    exc,        \* per request: str(e) of the insert's exception (line 136)
    calls       \* per request: the external calls made so far, in order

vars == <<store, pc, body, vuln_id, reply, parsed, resp, exc, calls>>

NoBody == [json |-> "none", obj |-> NoObj]

Init ==
    /\ store = <<>>
    /\ pc = [r \in Requests |-> "idle"]
    /\ body = [r \in Requests |-> NoBody]
    /\ vuln_id = [r \in Requests |-> <<>>]
    /\ reply = [r \in Requests |-> NoReply]
    /\ parsed = [r \in Requests |-> NoFix]
    /\ resp = [r \in Requests |-> NoResponse]
    /\ exc = [r \in Requests |-> <<>>]
    /\ calls = [r \in Requests |-> <<>>]

\* Lines 77-87.  Request r arrives with a body of `bodies` (requests are
\* numbered in their order of arrival) and is parsed and validated: it is
\* answered 400, or goes on to the lookup with vuln_id set.
Receive(r, bodies) ==
    /\ pc[r] = "idle"
    /\ \A q \in Requests : q < r => pc[q] # "idle"
    /\ \E data \in bodies :
         \E v \in ParseRequest(data) :
            /\ body' = [body EXCEPT ![r] = data]
            /\ pc' = [pc EXCEPT ![r] = IF v.ok THEN "lookup" ELSE "done"]
            /\ resp' = [resp EXCEPT ![r] =
                  IF v.ok THEN NoResponse ELSE Response(400, <<v.error>>, NoFix)]
            /\ vuln_id' = [vuln_id EXCEPT ![r] =
                  IF v.ok THEN Strip(data.obj["vulnerability_id"].s) ELSE <<>>]
    /\ UNCHANGED <<store, reply, parsed, exc, calls>>

\* Lines 89-97.  The select either raises or returns the rows of that id.
Lookup(r) ==
    /\ pc[r] = "lookup"
    /\ \E failed \in BOOLEAN :
         LET out == LookupResponse(failed, SelectFix(store, vuln_id[r]))
         IN  /\ resp' = [resp EXCEPT ![r] = out]
             /\ pc' = [pc EXCEPT ![r] = IF out.status = 0 THEN "llm" ELSE "done"]
    /\ calls' = [calls EXCEPT ![r] = Append(@, "lookup")]
    /\ UNCHANGED <<store, body, vuln_id, reply, parsed, exc>>

\* Lines 99-115.  One call of the LLM, which gives any reply of `replies`,
\* then the parse and the key check.
CallLLM(r, replies) ==
    /\ pc[r] = "llm"
    /\ \E rep \in replies :
         LET out == HandleReply(rep, vuln_id[r])
         IN  /\ reply' = [reply EXCEPT ![r] = rep]
             /\ parsed' = [parsed EXCEPT ![r] = out.body]
             /\ resp' = [resp EXCEPT ![r] =
                   IF out.status = 0 THEN NoResponse ELSE out]
             /\ pc' = [pc EXCEPT ![r] = IF out.status = 0 THEN "insert" ELSE "done"]
    /\ calls' = [calls EXCEPT ![r] = Append(@, "llm")]
    /\ UNCHANGED <<store, body, vuln_id, exc>>

\* Lines 117-145.  One insert, then the response.
Insert(r) ==
    /\ pc[r] = "insert"
    /\ \E out \in TableInsert(store, insert_data(body[r], vuln_id[r], parsed[r])) :
         /\ store' = out.rows
         /\ exc' = [exc EXCEPT ![r] = out.msg]
         /\ resp' = [resp EXCEPT ![r] = InsertResponse(out, vuln_id[r], parsed[r])]
    /\ pc' = [pc EXCEPT ![r] = "done"]
    /\ calls' = [calls EXCEPT ![r] = Append(@, "insert")]
    /\ UNCHANGED <<body, vuln_id, reply, parsed>>

\* ----------------------------------------------- inputs of specification Spec
\* Concurrent requests: two spellings of one id, a second id, two
\* descriptions, and a body validation rejects.
Report(id, description) ==
    ObjectBody([k \in REQUIRED_KEYS |->
        IF k = "vulnerability_id" THEN Str(id)
        ELSE IF k = "description" THEN Str(description)
        ELSE Str(<<"a">>)])

RaceBodies ==
    {Report(<<"a">>, <<"a">>), Report(<<" ", "a">>, <<"a", "a">>),
     Report(<<"b">>, <<"a">>), Report(<<" ">>, <<"a">>)}

Fix(id, code, description) ==
    LlmObject([k \in expected_keys |->
        IF k = "vulnerability_id" THEN id
        ELSE IF k = "fixed_code" THEN code ELSE description])

RaceReplies ==
    {LlmError, Fix(<<"z">>, <<"fix1">>, <<"why1">>), Fix(<<"a">>, <<"fix2">>, <<"why2">>)}

Next ==
    \E r \in Requests :
        \/ Receive(r, RaceBodies)
        \/ Lookup(r)
        \/ CallLLM(r, RaceReplies)
        \/ Insert(r)

Spec == Init /\ [][Next]_vars

\* ------------------------------------------ inputs of specification SpecInput
\* One request, with every body and every LLM reply within the bounds.
Values(n) == {NonStr} \cup {Str(s) : s \in StringsUpTo(n)}

AllBodies ==
    {InvalidJsonBody, NonObjectBody} \cup
    {ObjectBody(o) : o \in UNION {
        {f \in [D -> Values(MaxIdLen)] :
            \A k \in D \ {"vulnerability_id"} : f[k] \in Values(MaxTextLen)}
        : D \in SUBSET REQUIRED_KEYS}}

LlmTexts == {<<>>, <<"a">>, <<"z">>}

AllReplies ==
    {LlmError, LlmText, LlmNonObject} \cup
    {LlmObject(o) : o \in UNION {[K -> LlmTexts] : K \in SUBSET expected_keys}}

NextInput ==
    \/ Receive(1, AllBodies)
    \/ Lookup(1)
    \/ CallLLM(1, AllReplies)
    \/ Insert(1)

SpecInput == Init /\ [][NextInput]_vars

\* ================================================================= claims

\* C1: at-most-once write per id.  The table never holds two rows of one
\* vulnerability_id, and of the requests for one id at most one ends with a
\* successful insert (an insert call answered 200), whatever the interleaving
\* of their lookup, LLM and insert steps.
C1_AtMostOnceWrite ==
    /\ \A i, j \in 1..Len(store) :
          store[i]["vulnerability_id"] = store[j]["vulnerability_id"] => i = j
    /\ \A r, q \in Requests :
          ( /\ calls[r] = <<"lookup", "llm", "insert">> /\ resp[r].status = 200
            /\ calls[q] = <<"lookup", "llm", "insert">> /\ resp[q].status = 200
            /\ vuln_id[r] = vuln_id[q] ) => r = q

\* Two requests for one id both reached the insert; one was stored, the
\* other rejected as a duplicate.
C1_Witness ==
    \E r, q \in Requests :
        /\ r # q /\ vuln_id[r] = vuln_id[q]
        /\ calls[r] = <<"lookup", "llm", "insert">> /\ resp[r].status = 200
        /\ calls[q] = <<"lookup", "llm", "insert">> /\ resp[q].status = 409
        /\ Len(store) = 1

\* C2: repeated-id policy.  A deployment shows one policy for a resubmitted
\* id: either resubmissions are answered from the store without an LLM call,
\* or they are rejected with 409; never both.
C2_SinglePolicy ==
    ~ ( /\ \E r \in Requests :
              /\ resp[r].status = 200 /\ calls[r] = <<"lookup">>
        /\ \E q \in Requests : resp[q].status = 409 )

C4_InvalidBodyRejectedBeforeCalls ==
    \A r \in Requests :
        LET data == body[r]
            wellFormed ==
                /\ data.json = "object"
                /\ REQUIRED_KEYS \subseteq DOMAIN data.obj
                /\ \A k \in REQUIRED_KEYS :
                      /\ data.obj[k].t = "str"
                      /\ \E i \in 1..Len(data.obj[k].s) : data.obj[k].s[i] # " "
        IN  /\ (pc[r] # "idle" /\ ~wellFormed) =>
                  (pc[r] = "done" /\ resp[r].status = 400 /\ calls[r] = <<>>)
            /\ calls[r] # <<>> => wellFormed

\* A body with all four keys, one of them whitespace only, was answered 400
\* before any call.
C4_Witness ==
    \E r \in Requests :
        /\ body[r].json = "object"
        /\ REQUIRED_KEYS \subseteq DOMAIN body[r].obj
        /\ \E k \in REQUIRED_KEYS :
              /\ body[r].obj[k].t = "str"
              /\ body[r].obj[k].s = <<" ">>
              /\ \A o \in REQUIRED_KEYS \ {k} : body[r].obj[o] = Str(<<"a">>)
        /\ resp[r].status = 400 /\ calls[r] = <<>>

\* C5: the lookup step decides the request.  If it fails, the request ends
\* with 500 "Database lookup failed"; if the table holds a row of the id, it
\* ends with 200 and that row's stored fix fields; in both cases without an
\* LLM call or an insert (a request that has ended makes no further call).
\* Only when the table holds no row of the id does the request go on.
C5_LookupShortCircuits ==
    [][\A r \in Requests :
          /\ (pc[r] = "lookup" /\ pc'[r] # "lookup") =>
                \/ /\ pc'[r] = "done"
                   /\ resp'[r] = Response(500, <<"Database lookup failed">>, NoFix)
                \/ /\ pc'[r] = "done"
                   /\ resp'[r].status = 200
                   /\ \E i \in 1..Len(store) :
                         /\ store[i]["vulnerability_id"] = vuln_id[r]
                         /\ resp'[r].body =
                               [k \in expected_keys |-> store[i][k]]
                \/ /\ pc'[r] = "llm"
                   /\ \A i \in 1..Len(store) :
                         store[i]["vulnerability_id"] # vuln_id[r]
          /\ pc[r] = "done" =>
                (pc'[r] = "done" /\ calls'[r] = calls[r] /\ resp'[r] = resp[r])
      ]_vars

\* One request was answered from the stored record and another ended with
\* the lookup failure, each after its lookup alone.
C5_Witness ==
    \E r, q \in Requests :
        /\ pc[r] = "done" /\ calls[r] = <<"lookup">> /\ resp[r].status = 200
        /\ pc[q] = "done" /\ calls[q] = <<"lookup">> /\ resp[q].status = 500

\* C6: an LLM reply that is valid JSON but carries no fixed_code or no
\* fix_description (an object lacking a key, or a value that is no object)
\* is answered 502 and nothing is inserted.
C6_IncompleteReplyIs502 ==
    \A r \in Requests :
        ( /\ pc[r] = "done"
          /\ reply[r].kind \in {"nonobject", "object"}
          /\ ~({"fixed_code", "fix_description"} \subseteq DOMAIN reply[r].obj) )
        => (resp[r].status = 502 /\ calls[r] = <<"lookup", "llm">>)

\* C7: stored records are immutable.  Every row of the table is still a row
\* of the table, with its six fields unchanged, after every step.
C7_RecordsImmutable ==
    [][\A i \in 1..Len(store) :
          \E j \in 1..Len(store') : store'[j] = store[i]]_vars

\* A later request for a stored id, sent with another description and given
\* another fix by the LLM, has ended, and so has a request for another id.
C7_Witness ==
    \E i \in 1..Len(store) : \E r, q \in Requests :
        /\ pc[r] = "done" /\ vuln_id[r] = store[i]["vulnerability_id"]
        /\ calls[r] = <<"lookup", "llm", "insert">>
        /\ body[r].obj["description"].s # store[i]["description"]
        /\ parsed[r]["fixed_code"] # store[i]["fixed_code"]
        /\ pc[q] = "done" /\ resp[q].status = 200
        /\ vuln_id[q] # store[i]["vulnerability_id"]

\* C8: when the insert raises the duplicate-key error, the response is 409
\* and its message names the id; when it raises anything else, the response
\* is 500 "Database insert failed"; either way the response carries no fix
\* and the table is left as it was.
C8_InsertFailureClassified ==
    [][\A r \in Requests :
          (pc[r] = "insert" /\ pc'[r] = "done" /\ exc'[r] # <<>>) =>
             /\ store' = store
             /\ resp'[r].body = NoFix
             /\ IF exc'[r] = DuplicateKeyError
                THEN /\ resp'[r].status = 409
                     /\ Contains(resp'[r].error, vuln_id[r])
                ELSE resp'[r] = Response(500, <<"Database insert failed">>, NoFix)
      ]_vars

\* One insert was rejected as a duplicate of a stored id and answered 409,
\* another failed otherwise and was answered 500.
C8_Witness ==
    \E r, q \in Requests :
        /\ pc[r] = "done" /\ exc[r] = DuplicateKeyError /\ resp[r].status = 409
        /\ \E i \in 1..Len(store) : store[i]["vulnerability_id"] = vuln_id[r]
        /\ pc[q] = "done" /\ exc[q] = StoreUnavailable /\ resp[q].status = 500

\* C9: a request makes its calls once and in order (lookup, LLM, insert),
\* and the step that fails ends it with that step's response: 400 before any
\* call, 200 or 500 after the lookup alone, 502 after the LLM call, and 200,
\* 409 or 500 after the insert.
C9_NoRetryFirstFailureEnds ==
    \A r \in Requests :
        /\ \E n \in 0..3 : calls[r] = SubSeq(<<"lookup", "llm", "insert">>, 1, n)
        /\ pc[r] = "done" =>
              resp[r].status \in
                 CASE calls[r] = <<>> -> {400}
                   [] calls[r] = <<"lookup">> -> {200, 500}
                   [] calls[r] = <<"lookup", "llm">> -> {502}
                   [] OTHER -> {200, 409, 500}

\* C10: every 200 response reflects the table.  A request answered 200 has
\* a row of its id in the table whose fixed_code and fix_description are
\* those of the response body.
C10_OkResponseIsStored ==
    \A r \in Requests :
        resp[r].status = 200 =>
            \E i \in 1..Len(store) :
                /\ store[i]["vulnerability_id"] = vuln_id[r]
                /\ store[i]["fixed_code"] = resp[r].body["fixed_code"]
                /\ store[i]["fix_description"] = resp[r].body["fix_description"]

\* One request was answered 200 after its own insert, one from the stored
\* record, and one whose insert failed carried a fix that was not stored.
C10_Witness ==
    \E r, q, u \in Requests :
        /\ resp[r].status = 200 /\ calls[r] = <<"lookup", "llm", "insert">>
        /\ resp[q].status = 200 /\ calls[q] = <<"lookup">>
        /\ pc[u] = "done" /\ exc[u] # <<>> /\ vuln_id[u] = vuln_id[r]
        /\ parsed[u]["fixed_code"] # resp[r].body["fixed_code"]
====
